---- MODULE Spec2Model ----
(***************************************************************************)
(* Model of the streaming HTML element extractors of ln2epub:              *)
(* HtmlFind, HtmlFindAll, HtmlCheckAttrs, HtmlKeyInAttr, HtmlValueContains *)
(* (src/_archive.go).  A string is a sequence of pieces; an attribute      *)
(* value is a sequence of one-character strings.                           *)
(***************************************************************************)
EXTENDS Integers, Sequences, FiniteSets, TLC

\* ------------------------------------------------------------------------
\* Bounds
\* ------------------------------------------------------------------------
MaxLen == 4

MaxValLen == 3

MaxTargetLen == 2

MaxPairLen == 3

MaxFiles == 2

MaxAttrs == 3

MaxFrameLen == 4

MaxChapterLen == 4

MaxCounter == 1

MaxChapter == 2

MaxFetches == 3

\* ------------------------------------------------------------------------
\* Program constants
\* ------------------------------------------------------------------------
\* tagDepth := -1, the "nothing selected yet" value of HtmlFind
NoTagDepth == -1

\* n := -1, the index of the top frame of HtmlFindAll when no frame is open
NoFrame == -1

\* tagDepth = append(tagDepth, 1): the dummy depth of a self-closing match
DummyDepth == 1

\* adDepth := -1, the "not inside an ad" value of SoapfGetChapter
NoAdDepth == -1

\* the token types of html.Tokenizer the extractors switch on
ErrorToken == "ErrorToken"

StartTagToken == "StartTagToken"

EndTagToken == "EndTagToken"

SelfClosingTagToken == "SelfClosingTagToken"

TextToken == "TextToken"

\* ------------------------------------------------------------------------
\* State
\* ------------------------------------------------------------------------
VARIABLES
  tokens,      \* the tokens the tokenizer yields before its terminal error
  endKind,     \* tokenizer.Err() once the tokens are exhausted: "EOF" | "Err"
  tag,         \* argument TAG
  attrCond,    \* argument ATTRCOND: Nil or the closure HtmlKeyInAttr(key, value)
  f_pc,        \* HtmlFind: "loop" | "done"
  f_pos,       \* HtmlFind: number of tokens pulled from its tokenizer
  f_depth,     \* HtmlFind: depth
  f_tagDepth,  \* HtmlFind: tagDepth
  f_ret,       \* HtmlFind: ret (strings.Builder)
  f_loop,      \* HtmlFind: loop
  f_errs,      \* HtmlFind: parity of the error tokens its tokenizer has reported
  a_pc,        \* HtmlFindAll: "loop" | "done" | "panic"
  a_pos,       \* HtmlFindAll: number of tokens pulled from its tokenizer
  a_depth,     \* HtmlFindAll: depth
  a_tagDepth,  \* HtmlFindAll: tagDepth []int
  a_h,         \* HtmlFindAll: h []*strings.Builder
  a_ret,       \* HtmlFindAll: ret []string
  a_n,         \* HtmlFindAll: n
  a_loop,      \* HtmlFindAll: loop
  a_errs,      \* HtmlFindAll: parity of the error tokens its tokenizer has reported
  m_key,       \* matcher: key bound by HtmlKeyInAttr
  m_value,     \* matcher: value bound by HtmlKeyInAttr / str of HtmlValueContains
  m_k,         \* matcher: attribute key the closure is called with
  m_v,         \* matcher: attribute value the closure is called with
  m_pc,        \* matcher: "call" | "done"
  m_ret,       \* matcher: result of HtmlKeyInAttr(key, value)(k, v)
  m_ret2,      \* matcher: result of HtmlValueContains(value, v)
  e_adapter,   \* epub: the site adapter main dispatches to
  e_vol,       \* epub: the chapter and image files the adapter collected for a volume
  e_files,     \* epub: the file list the adapter returns for the volume
  e_zip,       \* epub: the entries EpubCreateFile has written to the archive
  e_pc,        \* epub: "adapter" | "create" | "done"
  c_f,         \* HtmlCheckAttrs: argument f
  c_attr,      \* HtmlCheckAttrs: argument attr
  c_i,         \* HtmlCheckAttrs: number of pairs of attr the range loop has taken
  c_calls,     \* HtmlCheckAttrs: the indices of the pairs f has been called with, in order
  c_pc,        \* HtmlCheckAttrs: "call" | "done"
  c_ret,       \* HtmlCheckAttrs: the returned bool
  ImageCache,  \* var ImageCache: url -> EpubFile, NoFile where the map has no key
  i_args,      \* FetchImageCached: the arguments url, n, imgCounter of the call
  i_ret,       \* FetchImageCached: the returned (EpubFile, int)
  i_fetched,   \* the urls FetchImage has been called with, in order
  i_pc,        \* image cache: "idle" | "call" (arguments bound, body not yet run)
  s_pc,        \* SoapfGetChapter: "loop" | "done"
  s_pos,       \* SoapfGetChapter: number of tokens pulled from its tokenizer
  s_depth,     \* SoapfGetChapter: depth
  s_adDepth,   \* SoapfGetChapter: adDepth
  s_skip,      \* SoapfGetChapter: skip
  s_inAd,      \* SoapfGetChapter: inAd
  s_loop,      \* SoapfGetChapter: loop
  s_ret,       \* SoapfGetChapter: ret (bytes.Buffer)
  s_written,   \* SoapfGetChapter: the positions of the tokens written to ret
  s_errs       \* SoapfGetChapter: parity of the error tokens its tokenizer has reported

inputVars == <<tokens, endKind, tag, attrCond>>

findVars == <<f_pc, f_pos, f_depth, f_tagDepth, f_ret, f_loop, f_errs>>

allVars == <<a_pc, a_pos, a_depth, a_tagDepth, a_h, a_ret, a_n, a_loop, a_errs>>

matchVars == <<m_key, m_value, m_k, m_v, m_pc, m_ret, m_ret2>>

epubVars == <<e_adapter, e_vol, e_files, e_zip, e_pc>>

checkVars == <<c_f, c_attr, c_i, c_calls, c_pc, c_ret>>

imageVars == <<ImageCache, i_args, i_ret, i_fetched, i_pc>>

chapterVars == <<s_pc, s_pos, s_depth, s_adDepth, s_skip, s_inAd, s_loop, s_ret, s_written, s_errs>>

restVars == <<checkVars, imageVars, chapterVars>>

vars == <<inputVars, findVars, allVars, matchVars, epubVars, restVars>>

\* ------------------------------------------------------------------------
\* Strings
\* ------------------------------------------------------------------------
Space == " "

\* strings.Contains(v, " ")
ContainsSpace(v) == \E i \in 1..Len(v) : v[i] = Space

\* index of the first space of v (v contains one)
FirstSpace(v) == CHOOSE i \in 1..Len(v) : v[i] = Space /\ \A j \in 1..(i-1) : v[j] # Space

\* strings.Split(v, " "): the pieces between single spaces, empty ones included
RECURSIVE Split(_)
Split(v) ==
  IF ContainsSpace(v)
  THEN <<SubSeq(v, 1, FirstSpace(v) - 1)>> \o Split(SubSeq(v, FirstSpace(v) + 1, Len(v)))
  ELSE <<v>>

\* for _, i := range vs { if i == value { return true } }
RECURSIVE RangeEq(_, _, _)
RangeEq(vs, value, i) ==
  IF i > Len(vs) THEN FALSE
  ELSE IF vs[i] = value THEN TRUE
  ELSE RangeEq(vs, value, i + 1)

\* a matcher that accepts value anywhere inside v, such as strings.Contains
HtmlKeyInAttr_contains(key, value, k, v) ==
  /\ k = key
  /\ \E i \in 0..Len(v) : SubSeq(v, i + 1, i + Len(value)) = value /\ i + Len(value) <= Len(v)

\* a matcher that compares the whole of v first and its pieces after
HtmlKeyInAttr_wholeFirst(key, value, k, v) ==
  /\ k = key
  /\ (v = value \/ RangeEq(Split(v), value, 1))

\* the closure returned by HtmlKeyInAttr(key, value), applied to (k, v)
HtmlKeyInAttr(key, value, k, v) ==
  IF k = key
  THEN IF ContainsSpace(v)
       THEN RangeEq(Split(v), value, 1)
       ELSE v = value
  ELSE FALSE

\* HtmlValueContains(str, value)
HtmlValueContains(str, value) ==
  IF ContainsSpace(value)
  THEN RangeEq(Split(value), str, 1)
  ELSE value = str

\* ------------------------------------------------------------------------
\* Attribute predicates
\* ------------------------------------------------------------------------
\* attrCond == nil
Nil == [isNil |-> TRUE, key |-> "", value |-> <<>>]

\* HtmlFindByAttr: the predicate handed to HtmlFind is HtmlKeyInAttr(key, value)
KeyInAttr(key, value) == [isNil |-> FALSE, key |-> key, value |-> value]

\* attrCond(i.Key, i.Val)
Call(f, k, v) == HtmlKeyInAttr(f.key, f.value, k, v)

\* for _, i := range attr { if f(i.Key, i.Val) { return true } }; return false
RECURSIVE RangeAttr(_, _, _)
RangeAttr(f, attr, i) ==
  IF i > Len(attr) THEN FALSE
  ELSE IF Call(f, attr[i].Key, attr[i].Val) THEN TRUE
  ELSE RangeAttr(f, attr, i + 1)

\* HtmlCheckAttrs(f, attr)
HtmlCheckAttrs(f, attr) ==
  IF f.isNil THEN TRUE ELSE RangeAttr(f, attr, 1)

\* ------------------------------------------------------------------------
\* Tokens
\* ------------------------------------------------------------------------
Tok(type, data, attr) == [Type |-> type, Data |-> data, Attr |-> attr]

Attr1(k, v) == <<[Key |-> k, Val |-> v]>>

\* the token html.Tokenizer reports with ErrorToken
ErrTok == Tok(ErrorToken, "", <<>>)

\* html.Token.String(): the token's markup; "" for the error token
RECURSIVE AttrString(_, _)
AttrString(attr, i) ==
  IF i > Len(attr) THEN <<>>
  ELSE <<Space, attr[i].Key, "=\"">> \o attr[i].Val \o <<"\"">> \o AttrString(attr, i + 1)

String(token) ==
  CASE token.Type = StartTagToken -> <<"<", token.Data>> \o AttrString(token.Attr, 1) \o <<">">>
    [] token.Type = EndTagToken -> <<"</", token.Data, ">">>
    [] token.Type = SelfClosingTagToken -> <<"<", token.Data>> \o AttrString(token.Attr, 1) \o <<"/>">>
    [] token.Type = TextToken -> <<token.Data>>
    [] OTHER -> <<>>

\* tokenizer.Next(); tokenizer.Token() after pos tokens have been pulled
HasNext(pos) == pos < Len(tokens)

NextToken(pos) == IF HasNext(pos) THEN tokens[pos + 1] ELSE ErrTok

\* ------------------------------------------------------------------------
\* Inputs
\* ------------------------------------------------------------------------
TokenSet ==
  { Tok(StartTagToken, "div", <<>>),
    Tok(StartTagToken, "div", Attr1("class", <<"a", " ", "b">>)),
    Tok(StartTagToken, "div", Attr1("class", <<"a", "b">>)),
    Tok(StartTagToken, "p", <<>>),
    Tok(EndTagToken, "div", <<>>),
    Tok(EndTagToken, "p", <<>>),
    Tok(SelfClosingTagToken, "div", Attr1("class", <<"a">>)),
    Tok(SelfClosingTagToken, "div", <<>>),
    Tok(TextToken, "x", <<>>) }

Streams == UNION { [1..n -> TokenSet] : n \in 0..MaxLen }

PairStreams == UNION { [1..n -> TokenSet] : n \in 0..MaxPairLen }

SearchTags == {"div", "p"}

Conds == {Nil, KeyInAttr("class", <<"a">>)}

Chars == {"a", "b", Space}

StringsUpTo(n) == UNION { [1..k -> Chars] : k \in 0..n }

Keys == {"class", "id"}

\* ------------------------------------------------------------------------
\* Init
\* ------------------------------------------------------------------------
FindInit ==
  /\ f_pc = "loop"
  /\ f_pos = 0
  /\ f_depth = 0
  /\ f_tagDepth = NoTagDepth
  /\ f_ret = <<>>
  /\ f_loop = TRUE
  /\ f_errs = 0

AllInit ==
  /\ a_pc = "loop"
  /\ a_pos = 0
  /\ a_depth = 0
  /\ a_tagDepth = <<>>
  /\ a_h = <<>>
  /\ a_ret = <<>>
  /\ a_n = NoFrame
  /\ a_loop = TRUE
  /\ a_errs = 0

MatchIdle ==
  /\ m_key = "class"
  /\ m_value = <<"a">>
  /\ m_k = "class"
  /\ m_v = <<"a">>
  /\ m_pc = "call"
  /\ m_ret = FALSE
  /\ m_ret2 = FALSE

\* no volume is being assembled
EpubIdle ==
  /\ e_adapter = "Soafp"
  /\ e_vol = <<>>
  /\ e_files = <<>>
  /\ e_zip = <<>>
  /\ e_pc = "adapter"

\* the image urls of a volume
URLs == {"u1", "u2"}

\* ImageCache[url] of a key the map does not hold
NoFile == [Id |-> <<>>, Filename |-> <<>>, Mimetype |-> "", Content |-> <<>>]

\* HtmlCheckAttrs has not been called
CheckIdle ==
  /\ c_f = Nil
  /\ c_attr = <<>>
  /\ c_i = 0
  /\ c_calls = <<>>
  /\ c_pc = "call"
  /\ c_ret = FALSE

\* var ImageCache = make(map[string]EpubFile)
ImageIdle ==
  /\ ImageCache = [u \in URLs |-> NoFile]
  /\ i_args = [url |-> "u1", n |-> 1, imgCounter |-> 0]
  /\ i_ret = [ifile |-> NoFile, imgCounter |-> 0]
  /\ i_fetched = <<>>
  /\ i_pc = "idle"

\* SoapfGetChapter: loop := true; skip := false; inAd := false; depth := 0;
\* adDepth := -1
ChapterIdle ==
  /\ s_pc = "loop"
  /\ s_pos = 0
  /\ s_depth = 0
  /\ s_adDepth = NoAdDepth
  /\ s_skip = FALSE
  /\ s_inAd = FALSE
  /\ s_loop = TRUE
  /\ s_ret = <<>>
  /\ s_written = <<>>
  /\ s_errs = 0

RestIdle ==
  /\ CheckIdle
  /\ ImageIdle
  /\ ChapterIdle

Init ==
  /\ tokens \in Streams
  /\ endKind \in {"EOF", "Err"}
  /\ tag \in SearchTags
  /\ attrCond \in Conds
  /\ FindInit
  /\ AllInit
  /\ MatchIdle
  /\ EpubIdle
  /\ RestIdle

\* the tokens that open, close and pass by the frames of a search for div
FrameTokenSet ==
  { Tok(StartTagToken, "div", <<>>),
    Tok(StartTagToken, "div", Attr1("class", <<"a", " ", "b">>)),
    Tok(StartTagToken, "p", <<>>),
    Tok(EndTagToken, "div", <<>>),
    Tok(EndTagToken, "p", <<>>),
    Tok(SelfClosingTagToken, "div", Attr1("class", <<"a">>)),
    Tok(TextToken, "x", <<>>) }

FrameStreams == UNION { [1..n -> FrameTokenSet] : n \in 0..MaxFrameLen }

\* HtmlFindAll(tokenizer, "div", attrCond)
FramesInit ==
  /\ tokens \in FrameStreams
  /\ endKind \in {"EOF", "Err"}
  /\ tag = "div"
  /\ attrCond \in Conds
  /\ FindInit
  /\ AllInit
  /\ MatchIdle
  /\ EpubIdle
  /\ RestIdle

\* HtmlFind and HtmlFindAll called side by side, each with a tokenizer of its
\* own over the same markup
PairInit ==
  /\ tokens \in PairStreams
  /\ endKind \in {"EOF", "Err"}
  /\ tag \in SearchTags
  /\ attrCond \in Conds
  /\ FindInit
  /\ AllInit
  /\ MatchIdle
  /\ EpubIdle
  /\ RestIdle

MatchInit ==
  /\ tokens = <<>>
  /\ endKind = "EOF"
  /\ tag = "div"
  /\ attrCond = Nil
  /\ FindInit
  /\ AllInit
  /\ m_key \in Keys
  /\ m_k \in Keys
  /\ m_value \in StringsUpTo(MaxTargetLen)
  /\ m_v \in StringsUpTo(MaxValLen)
  /\ m_pc = "call"
  /\ m_ret = FALSE
  /\ m_ret2 = FALSE
  /\ EpubIdle
  /\ RestIdle

\* ------------------------------------------------------------------------
\* HtmlFind: one action per case of the switch, each a whole loop iteration
\* ------------------------------------------------------------------------
\* if tagDepth != -1 { ret.WriteString(token.String()) }
WriteString(tagDepth, ret, token) ==
  IF tagDepth # NoTagDepth THEN ret \o String(token) ELSE ret

\* case html.ErrorToken
FindErrorToken ==
  /\ f_pc = "loop" /\ f_loop
  /\ ~HasNext(f_pos)
  /\ f_loop' = (IF endKind = "EOF" THEN FALSE ELSE f_loop)
  /\ f_ret' = WriteString(f_tagDepth, f_ret, ErrTok)
  /\ f_errs' = 1 - f_errs
  /\ UNCHANGED <<f_pc, f_pos, f_depth, f_tagDepth>>
  /\ UNCHANGED <<inputVars, allVars, matchVars, epubVars, restVars>>

\* case html.StartTagToken
FindStartTag ==
  /\ f_pc = "loop" /\ f_loop
  /\ HasNext(f_pos)
  /\ LET token == NextToken(f_pos)
         depth == f_depth + 1
     IN /\ token.Type = StartTagToken
        /\ f_pos' = f_pos + 1
        /\ f_depth' = depth
        /\ IF token.Data = tag /\ attrCond.isNil
           THEN \* tagDepth = depth; continue
                /\ f_tagDepth' = depth
                /\ f_ret' = f_ret
           ELSE LET tagDepth == IF token.Data = tag /\ RangeAttr(attrCond, token.Attr, 1)
                                THEN depth ELSE f_tagDepth
                IN /\ f_tagDepth' = tagDepth
                   /\ f_ret' = WriteString(tagDepth, f_ret, token)
  /\ UNCHANGED <<f_pc, f_loop, f_errs>>
  /\ UNCHANGED <<inputVars, allVars, matchVars, epubVars, restVars>>

\* case html.SelfClosingTagToken
FindSelfClosingTag ==
  /\ f_pc = "loop" /\ f_loop
  /\ HasNext(f_pos)
  /\ LET token == NextToken(f_pos)
     IN /\ token.Type = SelfClosingTagToken
        /\ f_pos' = f_pos + 1
        /\ IF token.Data = tag
           THEN \* continue; the statements after it are unreachable
                f_ret' = f_ret
           ELSE f_ret' = WriteString(f_tagDepth, f_ret, token)
  /\ UNCHANGED <<f_pc, f_depth, f_tagDepth, f_loop, f_errs>>
  /\ UNCHANGED <<inputVars, allVars, matchVars, epubVars, restVars>>

\* an end-tag case that decrements depth before the closure test
FindEndTag_early ==
  /\ f_pc = "loop" /\ f_loop
  /\ HasNext(f_pos)
  /\ LET token == NextToken(f_pos)
     IN /\ token.Type = EndTagToken
        /\ f_pos' = f_pos + 1
        /\ f_depth' = f_depth - 1
        /\ f_loop' = (IF token.Data = tag /\ f_depth - 1 = f_tagDepth THEN FALSE ELSE f_loop)
        /\ f_ret' = WriteString(f_tagDepth, f_ret, token)
  /\ UNCHANGED <<f_pc, f_tagDepth, f_errs>>
  /\ UNCHANGED <<inputVars, allVars, matchVars, epubVars, restVars>>

\* case html.EndTagToken
FindEndTag ==
  /\ f_pc = "loop" /\ f_loop
  /\ HasNext(f_pos)
  /\ LET token == NextToken(f_pos)
     IN /\ token.Type = EndTagToken
        /\ f_pos' = f_pos + 1
        /\ f_loop' = (IF token.Data = tag /\ f_depth = f_tagDepth THEN FALSE ELSE f_loop)
        /\ f_depth' = f_depth - 1
        /\ f_ret' = WriteString(f_tagDepth, f_ret, token)
  /\ UNCHANGED <<f_pc, f_tagDepth, f_errs>>
  /\ UNCHANGED <<inputVars, allVars, matchVars, epubVars, restVars>>

\* any other token type: no case of the switch applies
FindOtherToken ==
  /\ f_pc = "loop" /\ f_loop
  /\ HasNext(f_pos)
  /\ LET token == NextToken(f_pos)
     IN /\ token.Type \notin {StartTagToken, EndTagToken, SelfClosingTagToken}
        /\ f_pos' = f_pos + 1
        /\ f_ret' = WriteString(f_tagDepth, f_ret, token)
  /\ UNCHANGED <<f_pc, f_depth, f_tagDepth, f_loop, f_errs>>
  /\ UNCHANGED <<inputVars, allVars, matchVars, epubVars, restVars>>

\* for loop { ... } is left; return ret.String()
FindReturn ==
  /\ f_pc = "loop" /\ ~f_loop
  /\ f_pc' = "done"
  /\ UNCHANGED <<f_pos, f_depth, f_tagDepth, f_ret, f_loop, f_errs>>
  /\ UNCHANGED <<inputVars, allVars, matchVars, epubVars, restVars>>

FindNext ==
  \/ FindErrorToken
  \/ FindStartTag
  \/ FindSelfClosingTag
  \/ FindEndTag
  \/ FindOtherToken
  \/ FindReturn

\* ------------------------------------------------------------------------
\* HtmlFindAll: one action per case of the switch, each a whole loop iteration
\* ------------------------------------------------------------------------
\* a write that reaches only the newest builder
WriteAll_top(h, str) == [i \in 1..Len(h) |-> IF i = Len(h) THEN h[i] \o str ELSE h[i]]

\* for _, i := range h { i.WriteString(str) }
WriteAll(h, str) == [i \in 1..Len(h) |-> h[i] \o str]

\* the string of the oldest open frame instead of the newest
TopString_oldest(h, n) == h[1]

\* h[n].String(), n counted from 0
TopString(h, n) == h[n + 1]

\* tagDepth[n], n counted from 0
TopDepth(tagDepth, n) == tagDepth[n + 1]

\* a slice expression that keeps the top frame
Truncate_keep(s, n) == s

\* tagDepth = tagDepth[:n]; h = h[:n]
Truncate(s, n) == SubSeq(s, 1, n)

\* a tail that puts the new fragment in front of the earlier ones
AllTail_prepend(token, depth, tagDepth, h, n, push) ==
  LET written == [i \in 1..Len(h) |-> h[i] \o String(token)]
  IN /\ a_depth' = depth
     /\ IF push
        THEN /\ a_ret' = <<written[n + 1]>> \o a_ret
             /\ a_tagDepth' = SubSeq(tagDepth, 1, n)
             /\ a_h' = SubSeq(written, 1, n)
             /\ a_n' = n - 1
        ELSE /\ a_ret' = a_ret
             /\ a_tagDepth' = tagDepth
             /\ a_h' = written
             /\ a_n' = n

\* the tail of an iteration: write str to every builder, then if push
\* { ret = append(ret, h[n].String()); drop the top frame; n -= 1 }
AllTail(token, depth, tagDepth, h, n, push) ==
  LET written == WriteAll(h, String(token))
  IN /\ a_depth' = depth
     /\ IF push
        THEN /\ a_ret' = Append(a_ret, TopString(written, n))
             /\ a_tagDepth' = Truncate(tagDepth, n)
             /\ a_h' = Truncate(written, n)
             /\ a_n' = n - 1
        ELSE /\ a_ret' = a_ret
             /\ a_tagDepth' = tagDepth
             /\ a_h' = written
             /\ a_n' = n

\* an end of stream that hands the open frames to the result
AllErrorEOF_flush ==
  /\ a_pc = "loop" /\ a_loop
  /\ ~HasNext(a_pos) /\ endKind = "EOF"
  /\ a_loop' = FALSE
  /\ a_ret' = a_ret \o a_h
  /\ a_errs' = 1 - a_errs
  /\ UNCHANGED <<a_pc, a_pos, a_depth, a_tagDepth, a_h, a_n>>
  /\ UNCHANGED <<inputVars, findVars, matchVars, epubVars, restVars>>

\* case ttype == html.ErrorToken && tokenizer.Err() == io.EOF
AllErrorEOF ==
  /\ a_pc = "loop" /\ a_loop
  /\ ~HasNext(a_pos) /\ endKind = "EOF"
  /\ a_loop' = FALSE
  /\ AllTail(ErrTok, a_depth, a_tagDepth, a_h, a_n, FALSE)
  /\ a_errs' = 1 - a_errs
  /\ UNCHANGED <<a_pc, a_pos>>
  /\ UNCHANGED <<inputVars, findVars, matchVars, epubVars, restVars>>

\* a self-closing case without the dummy frame: push takes the enclosing frame
AllSelfClosingMatch_noDummy ==
  /\ a_pc = "loop" /\ a_loop
  /\ HasNext(a_pos)
  /\ LET token == NextToken(a_pos)
     IN /\ token.Type = SelfClosingTagToken
        /\ token.Data = tag
        /\ HtmlCheckAttrs(attrCond, token.Attr)
        /\ a_pos' = a_pos + 1
        /\ IF a_n = NoFrame
           THEN AllTail(token, a_depth, Append(a_tagDepth, DummyDepth),
                        Append(a_h, <<>>), a_n + 1, TRUE)
           ELSE AllTail(token, a_depth, a_tagDepth, a_h, a_n, TRUE)
  /\ UNCHANGED <<a_pc, a_loop, a_errs>>
  /\ UNCHANGED <<inputVars, findVars, matchVars, epubVars, restVars>>

\* case ttype == html.SelfClosingTagToken && token.Data == tag &&
\*      HtmlCheckAttrs(attrCond, token.Attr)
AllSelfClosingMatch ==
  /\ a_pc = "loop" /\ a_loop
  /\ HasNext(a_pos)
  /\ LET token == NextToken(a_pos)
     IN /\ token.Type = SelfClosingTagToken
        /\ token.Data = tag
        /\ HtmlCheckAttrs(attrCond, token.Attr)
        /\ a_pos' = a_pos + 1
        /\ AllTail(token, a_depth, Append(a_tagDepth, DummyDepth),
                   Append(a_h, <<>>), a_n + 1, TRUE)
  /\ UNCHANGED <<a_pc, a_loop, a_errs>>
  /\ UNCHANGED <<inputVars, findVars, matchVars, epubVars, restVars>>

\* a start-tag case whose depth counter is the one HtmlFind uses
AllStartTag_sharedDepth ==
  /\ a_pc = "loop" /\ a_loop
  /\ HasNext(a_pos)
  /\ LET token == NextToken(a_pos)
         depth == a_depth + 1
     IN /\ token.Type = StartTagToken
        /\ a_pos' = a_pos + 1
        /\ a_depth' = depth
        /\ f_depth' = f_depth + 1
        /\ a_ret' = a_ret
        /\ IF token.Data = tag /\ HtmlCheckAttrs(attrCond, token.Attr)
           THEN /\ a_tagDepth' = Append(a_tagDepth, depth)
                /\ a_h' = [i \in 1..(Len(a_h) + 1) |->
                             (IF i <= Len(a_h) THEN a_h[i] ELSE <<>>) \o String(token)]
                /\ a_n' = a_n + 1
           ELSE /\ a_tagDepth' = a_tagDepth
                /\ a_h' = [i \in 1..Len(a_h) |-> a_h[i] \o String(token)]
                /\ a_n' = a_n
  /\ UNCHANGED <<a_pc, a_loop, a_errs>>
  /\ UNCHANGED <<f_pc, f_pos, f_tagDepth, f_ret, f_loop, f_errs>>
  /\ UNCHANGED <<inputVars, matchVars, epubVars, restVars>>

\* a start-tag case that appends the frame and leaves n where it was
AllStartTag_noIndex ==
  /\ a_pc = "loop" /\ a_loop
  /\ HasNext(a_pos)
  /\ LET token == NextToken(a_pos)
         depth == a_depth + 1
     IN /\ token.Type = StartTagToken
        /\ a_pos' = a_pos + 1
        /\ IF token.Data = tag /\ HtmlCheckAttrs(attrCond, token.Attr)
           THEN AllTail(token, depth, Append(a_tagDepth, depth),
                        Append(a_h, <<>>), a_n, FALSE)
           ELSE AllTail(token, depth, a_tagDepth, a_h, a_n, FALSE)
  /\ UNCHANGED <<a_pc, a_loop, a_errs>>
  /\ UNCHANGED <<inputVars, findVars, matchVars, epubVars, restVars>>

\* case ttype == html.StartTagToken
AllStartTag ==
  /\ a_pc = "loop" /\ a_loop
  /\ HasNext(a_pos)
  /\ LET token == NextToken(a_pos)
         depth == a_depth + 1
     IN /\ token.Type = StartTagToken
        /\ a_pos' = a_pos + 1
        /\ IF token.Data = tag /\ HtmlCheckAttrs(attrCond, token.Attr)
           THEN AllTail(token, depth, Append(a_tagDepth, depth),
                        Append(a_h, <<>>), a_n + 1, FALSE)
           ELSE AllTail(token, depth, a_tagDepth, a_h, a_n, FALSE)
  /\ UNCHANGED <<a_pc, a_loop, a_errs>>
  /\ UNCHANGED <<inputVars, findVars, matchVars, epubVars, restVars>>

\* an end-tag case that closes whichever open frame was opened at this depth
AllEndTag_anyFrame ==
  /\ a_pc = "loop" /\ a_loop
  /\ HasNext(a_pos)
  /\ LET token == NextToken(a_pos)
         written == WriteAll(a_h, String(token))
         S == {k \in 1..Len(a_h) : a_tagDepth[k] = a_depth}
     IN /\ token.Type = EndTagToken
        /\ a_pos' = a_pos + 1
        /\ a_depth' = a_depth - 1
        /\ IF token.Data = tag /\ S # {}
           THEN LET k == CHOOSE x \in S : \A y \in S : y <= x
                    Drop(q) == SubSeq(q, 1, k - 1) \o SubSeq(q, k + 1, Len(q))
                IN /\ a_ret' = Append(a_ret, written[k])
                   /\ a_tagDepth' = Drop(a_tagDepth)
                   /\ a_h' = Drop(written)
                   /\ a_n' = a_n - 1
           ELSE /\ a_ret' = a_ret
                /\ a_tagDepth' = a_tagDepth
                /\ a_h' = written
                /\ a_n' = a_n
  /\ UNCHANGED <<a_pc, a_loop, a_errs>>
  /\ UNCHANGED <<inputVars, findVars, matchVars, epubVars, restVars>>

\* an end-tag case that closes the top frame on the name alone
AllEndTag_byName ==
  /\ a_pc = "loop" /\ a_loop
  /\ HasNext(a_pos)
  /\ LET token == NextToken(a_pos)
     IN /\ token.Type = EndTagToken
        /\ a_pos' = a_pos + 1
        /\ AllTail(token, a_depth - 1, a_tagDepth, a_h, a_n,
                   token.Data = tag /\ a_n # NoFrame)
  /\ UNCHANGED <<a_pc, a_loop, a_errs>>
  /\ UNCHANGED <<inputVars, findVars, matchVars, epubVars, restVars>>

\* case ttype == html.EndTagToken; tagDepth[n] with n = -1 is a runtime
\* panic (index out of range), which ends the call without a return value
AllEndTag ==
  /\ a_pc = "loop" /\ a_loop
  /\ HasNext(a_pos)
  /\ LET token == NextToken(a_pos)
     IN /\ token.Type = EndTagToken
        /\ a_pos' = a_pos + 1
        /\ IF token.Data = tag /\ a_n = NoFrame
           THEN /\ a_pc' = "panic"
                /\ UNCHANGED <<a_depth, a_tagDepth, a_h, a_ret, a_n>>
           ELSE /\ a_pc' = a_pc
                /\ AllTail(token, a_depth - 1, a_tagDepth, a_h, a_n,
                           token.Data = tag /\ a_depth = TopDepth(a_tagDepth, a_n))
  /\ UNCHANGED <<a_loop, a_errs>>
  /\ UNCHANGED <<inputVars, findVars, matchVars, epubVars, restVars>>

\* no case of the switch applies: other token types, a self-closing tag that
\* is not a match, and the error token of a tokenizer error other than io.EOF
AllOtherToken ==
  /\ a_pc = "loop" /\ a_loop
  /\ LET token == NextToken(a_pos)
     IN /\ \/ /\ HasNext(a_pos)
              /\ token.Type \notin {StartTagToken, EndTagToken}
              /\ ~(token.Type = SelfClosingTagToken /\ token.Data = tag
                   /\ HtmlCheckAttrs(attrCond, token.Attr))
           \/ /\ ~HasNext(a_pos)
              /\ endKind # "EOF"
        /\ a_pos' = (IF HasNext(a_pos) THEN a_pos + 1 ELSE a_pos)
        /\ a_errs' = (IF HasNext(a_pos) THEN a_errs ELSE 1 - a_errs)
        /\ AllTail(token, a_depth, a_tagDepth, a_h, a_n, FALSE)
  /\ UNCHANGED <<a_pc, a_loop>>
  /\ UNCHANGED <<inputVars, findVars, matchVars, epubVars, restVars>>

\* for loop { ... } is left; return ret
AllReturn ==
  /\ a_pc = "loop" /\ ~a_loop
  /\ a_pc' = "done"
  /\ UNCHANGED <<a_pos, a_depth, a_tagDepth, a_h, a_ret, a_n, a_loop, a_errs>>
  /\ UNCHANGED <<inputVars, findVars, matchVars, epubVars, restVars>>

AllNext ==
  \/ AllErrorEOF
  \/ AllSelfClosingMatch
  \/ AllStartTag
  \/ AllEndTag
  \/ AllOtherToken
  \/ AllReturn

\* ------------------------------------------------------------------------
\* The matcher: one call of the closure and of HtmlValueContains
\* ------------------------------------------------------------------------
MatchCall ==
  /\ m_pc = "call"
  /\ m_pc' = "done"
  /\ m_ret' = HtmlKeyInAttr(m_key, m_value, m_k, m_v)
  /\ m_ret2' = HtmlValueContains(m_value, m_v)
  /\ UNCHANGED <<m_key, m_value, m_k, m_v>>
  /\ UNCHANGED <<inputVars, findVars, allVars, epubVars, restVars>>

MatchNext == MatchCall

\* ------------------------------------------------------------------------
\* The epub archive: an adapter builds the file list of a volume, main hands
\* it to EpubCreateFile
\* ------------------------------------------------------------------------
File(name) == [Filename |-> name]

\* the files an adapter collects: chapters, images, cover
VolumeFiles ==
  { File("OEBPS/Text/Chapter1.xhtml"),
    File("OEBPS/Images/cover"),
    File("OEBPS/Text/Cover.xhtml") }

Volumes == UNION { [1..n -> VolumeFiles] : n \in 0..MaxFiles }

\* adapters that return EpubAddExtra(...) itself, and the one that does not
Adapters == {"Soafp", "Shalvation"}

\* EpubAddExtra(author, identifier, title, files)
EpubAddExtra(files) ==
  <<File("mimetype")>>
    \o (files \o <<File("OEBPS/content.opf"), File("OEBPS/toc.ncx"),
                   File("META-INF/container.xml")>>)

EpubInit ==
  /\ tokens = <<>>
  /\ endKind = "EOF"
  /\ tag = "div"
  /\ attrCond = Nil
  /\ FindInit
  /\ AllInit
  /\ MatchIdle
  /\ e_adapter \in Adapters
  /\ e_vol \in Volumes
  /\ e_files = <<>>
  /\ e_zip = <<>>
  /\ e_pc = "adapter"
  /\ RestIdle

\* SoafpEpubFiles and the adapters like it: url: EpubAddExtra(..., files)
SoafpEpubFiles ==
  /\ e_pc = "adapter" /\ e_adapter = "Soafp"
  /\ e_files' = EpubAddExtra(e_vol)
  /\ e_pc' = "create"
  /\ UNCHANGED <<e_adapter, e_vol, e_zip>>
  /\ UNCHANGED <<inputVars, findVars, allVars, matchVars, restVars>>

\* ShalvationEpubFiles: files = append(files, EpubAddExtra(..., files)...)
ShalvationEpubFiles ==
  /\ e_pc = "adapter" /\ e_adapter = "Shalvation"
  /\ e_files' = e_vol \o EpubAddExtra(e_vol)
  /\ e_pc' = "create"
  /\ UNCHANGED <<e_adapter, e_vol, e_zip>>
  /\ UNCHANGED <<inputVars, findVars, allVars, matchVars, restVars>>

\* EpubCreateFile: one iteration of for _, file := range files
EpubCreateFileWrite ==
  /\ e_pc = "create"
  /\ Len(e_zip) < Len(e_files)
  /\ e_zip' = Append(e_zip, e_files[Len(e_zip) + 1])
  /\ UNCHANGED <<e_adapter, e_vol, e_files, e_pc>>
  /\ UNCHANGED <<inputVars, findVars, allVars, matchVars, restVars>>

\* EpubCreateFile returns
EpubCreateFileReturn ==
  /\ e_pc = "create"
  /\ Len(e_zip) = Len(e_files)
  /\ e_pc' = "done"
  /\ UNCHANGED <<e_adapter, e_vol, e_files, e_zip>>
  /\ UNCHANGED <<inputVars, findVars, allVars, matchVars, restVars>>

EpubNext ==
  \/ SoafpEpubFiles
  \/ ShalvationEpubFiles
  \/ EpubCreateFileWrite
  \/ EpubCreateFileReturn

\* ------------------------------------------------------------------------
\* HtmlCheckAttrs, one range iteration at a time
\* ------------------------------------------------------------------------
AttrPairs ==
  { [Key |-> "class", Val |-> <<"a">>],
    [Key |-> "class", Val |-> <<"b", Space, "a">>],
    [Key |-> "class", Val |-> <<"b">>],
    [Key |-> "id", Val |-> <<"a">>] }

AttrLists == UNION { [1..n -> AttrPairs] : n \in 0..MaxAttrs }

CheckInit ==
  /\ tokens = <<>>
  /\ endKind = "EOF"
  /\ tag = "div"
  /\ attrCond = Nil
  /\ FindInit
  /\ AllInit
  /\ MatchIdle
  /\ EpubIdle
  /\ c_f \in Conds
  /\ c_attr \in AttrLists
  /\ c_i = 0
  /\ c_calls = <<>>
  /\ c_pc = "call"
  /\ c_ret = FALSE
  /\ ImageIdle
  /\ ChapterIdle

\* if f == nil { return true }
CheckAttrsNil ==
  /\ c_pc = "call"
  /\ c_f.isNil
  /\ c_ret' = TRUE
  /\ c_pc' = "done"
  /\ UNCHANGED <<c_f, c_attr, c_i, c_calls>>
  /\ UNCHANGED <<inputVars, findVars, allVars, matchVars, epubVars, imageVars, chapterVars>>

\* a range loop that calls f on every pair before it answers
CheckAttrsRange_all ==
  /\ c_pc = "call"
  /\ ~c_f.isNil
  /\ c_i < Len(c_attr)
  /\ c_calls' = Append(c_calls, c_i + 1)
  /\ c_i' = c_i + 1
  /\ c_ret' = (c_ret \/ Call(c_f, c_attr[c_i + 1].Key, c_attr[c_i + 1].Val))
  /\ c_pc' = (IF c_i + 1 = Len(c_attr) /\ c_ret' THEN "done" ELSE "call")
  /\ UNCHANGED <<c_f, c_attr>>
  /\ UNCHANGED <<inputVars, findVars, allVars, matchVars, epubVars, imageVars, chapterVars>>

\* for _, i := range attr { if f(i.Key, i.Val) { return true } }
CheckAttrsRange ==
  /\ c_pc = "call"
  /\ ~c_f.isNil
  /\ c_i < Len(c_attr)
  /\ c_calls' = Append(c_calls, c_i + 1)
  /\ c_i' = c_i + 1
  /\ IF Call(c_f, c_attr[c_i + 1].Key, c_attr[c_i + 1].Val)
     THEN c_ret' = TRUE /\ c_pc' = "done"
     ELSE UNCHANGED <<c_ret, c_pc>>
  /\ UNCHANGED <<c_f, c_attr>>
  /\ UNCHANGED <<inputVars, findVars, allVars, matchVars, epubVars, imageVars, chapterVars>>

\* the range is exhausted: return false
CheckAttrsFalse ==
  /\ c_pc = "call"
  /\ ~c_f.isNil
  /\ c_i = Len(c_attr)
  /\ c_ret' = FALSE
  /\ c_pc' = "done"
  /\ UNCHANGED <<c_f, c_attr, c_i, c_calls>>
  /\ UNCHANGED <<inputVars, findVars, allVars, matchVars, epubVars, imageVars, chapterVars>>

CheckNext ==
  \/ CheckAttrsNil
  \/ CheckAttrsRange
  \/ CheckAttrsFalse

\* ------------------------------------------------------------------------
\* The image cache: FetchImageCached as ReplaceImgTags calls it, AddCoverImage
\* ------------------------------------------------------------------------
\* fmt.Sprintf("Img%d_Ch%d", imgCounter, n)
ImgId(imgCounter, n) == <<"Img", ToString(imgCounter), "_Ch", ToString(n)>>

\* FetchImage(url): the bytes this fetch of url answers with, and their type
FetchImage(url) ==
  [img |-> <<url, ToString(Len(i_fetched) + 1)>>, mimetype |-> "image/png"]

ImageInit ==
  /\ tokens = <<>>
  /\ endKind = "EOF"
  /\ tag = "div"
  /\ attrCond = Nil
  /\ FindInit
  /\ AllInit
  /\ MatchIdle
  /\ EpubIdle
  /\ RestIdle

\* ReplaceImgTags: ifile, ic := FetchImageCached(img.Attrs()["src"], n, imgCounter)
ImageCall ==
  /\ i_pc = "idle"
  /\ \E url \in URLs, n \in 1..MaxChapter, imgCounter \in 0..MaxCounter :
       i_args' = [url |-> url, n |-> n, imgCounter |-> imgCounter]
  /\ i_pc' = "call"
  /\ UNCHANGED <<ImageCache, i_ret, i_fetched>>
  /\ UNCHANGED <<inputVars, findVars, allVars, matchVars, epubVars, checkVars, chapterVars>>

\* a body that fetches and stores whether or not the url is cached
FetchImageCached_refetch ==
  /\ i_pc = "call"
  /\ LET url == i_args.url
         imgId == ImgId(i_args.imgCounter, i_args.n)
         fetch == FetchImage(url)
         ifile == [Id |-> imgId, Filename |-> <<"OEBPS/Images/">> \o imgId,
                   Mimetype |-> fetch.mimetype, Content |-> fetch.img]
     IN /\ i_fetched' = Append(i_fetched, url)
        /\ ImageCache' = [ImageCache EXCEPT ![url] = ifile]
        /\ i_ret' = [ifile |-> ifile, imgCounter |-> i_args.imgCounter + 1]
  /\ i_pc' = "idle"
  /\ UNCHANGED i_args
  /\ UNCHANGED <<inputVars, findVars, allVars, matchVars, epubVars, checkVars, chapterVars>>

\* FetchImageCached(url, n, imgCounter)
FetchImageCached ==
  /\ i_pc = "call"
  /\ LET url == i_args.url
         imgId == ImgId(i_args.imgCounter, i_args.n)
         fetch == FetchImage(url)
         ifile == [Id |-> imgId, Filename |-> <<"OEBPS/Images/">> \o imgId,
                   Mimetype |-> fetch.mimetype, Content |-> fetch.img]
     IN IF ImageCache[url] = NoFile
        THEN /\ i_fetched' = Append(i_fetched, url)
             /\ ImageCache' = [ImageCache EXCEPT ![url] = ifile]
             /\ i_ret' = [ifile |-> ifile, imgCounter |-> i_args.imgCounter + 1]
        ELSE /\ i_ret' = [ifile |-> ImageCache[url], imgCounter |-> i_args.imgCounter]
             /\ UNCHANGED <<ImageCache, i_fetched>>
  /\ i_pc' = "idle"
  /\ UNCHANGED i_args
  /\ UNCHANGED <<inputVars, findVars, allVars, matchVars, epubVars, checkVars, chapterVars>>

\* AddCoverImage(url, files): cover, mimetype := FetchImage(url);
\* ImageCache[url] = c
AddCoverImage ==
  /\ i_pc = "idle"
  /\ Len(i_fetched) < MaxFetches
  /\ \E url \in URLs :
       LET fetch == FetchImage(url)
           c == [Id |-> <<"cover-image">>, Filename |-> <<"OEBPS/Images/cover">>,
                 Mimetype |-> fetch.mimetype, Content |-> fetch.img]
       IN /\ i_fetched' = Append(i_fetched, url)
          /\ ImageCache' = [ImageCache EXCEPT ![url] = c]
  /\ UNCHANGED <<i_args, i_ret, i_pc>>
  /\ UNCHANGED <<inputVars, findVars, allVars, matchVars, epubVars, checkVars, chapterVars>>

ImageNext ==
  \/ ImageCall
  \/ FetchImageCached
  \/ AddCoverImage

\* ------------------------------------------------------------------------
\* SoapfGetChapter: the filter loop over the tokens of the entry-content div,
\* one action per case of the switch, each a whole loop iteration.  A class
\* value here is a sequence of words and spaces.
\* ------------------------------------------------------------------------
ChapterTokenSet ==
  { Tok(StartTagToken, "div", Attr1("class", <<"code-block">>)),
    Tok(StartTagToken, "span", Attr1("class", <<"has-inline-color">>)),
    Tok(StartTagToken, "p", <<>>),
    Tok(EndTagToken, "div", <<>>),
    Tok(EndTagToken, "span", <<>>),
    Tok(EndTagToken, "p", <<>>),
    Tok(SelfClosingTagToken, "hr", Attr1("class", <<"wp-block-separator">>)),
    Tok(TextToken, "x", <<>>) }

ChapterStreams == UNION { [1..n -> ChapterTokenSet] : n \in 0..MaxChapterLen }

ChapterInit ==
  /\ tokens \in ChapterStreams
  /\ endKind \in {"EOF", "Err"}
  /\ tag = "div"
  /\ attrCond = Nil
  /\ FindInit
  /\ AllInit
  /\ MatchIdle
  /\ EpubIdle
  /\ RestIdle

\* if !skip { ret.WriteString(token.String()) }; if skip && !inAd { skip = false }
ChapterTail(pos, token, skip, inAd) ==
  /\ s_ret' = (IF ~skip THEN s_ret \o String(token) ELSE s_ret)
  /\ s_written' = (IF ~skip /\ pos # s_pos THEN Append(s_written, pos) ELSE s_written)
  /\ s_skip' = (IF skip /\ ~inAd THEN FALSE ELSE skip)
  /\ s_inAd' = inAd

\* case ttype == html.ErrorToken && tokenizer.Err() == io.EOF
ChapterErrorEOF ==
  /\ s_pc = "loop" /\ s_loop
  /\ ~HasNext(s_pos) /\ endKind = "EOF"
  /\ s_loop' = FALSE
  /\ s_errs' = 1 - s_errs
  /\ ChapterTail(s_pos, ErrTok, s_skip, s_inAd)
  /\ UNCHANGED <<s_pc, s_pos, s_depth, s_adDepth>>
  /\ UNCHANGED <<inputVars, findVars, allVars, matchVars, epubVars, checkVars, imageVars>>

\* case ttype == html.StartTagToken: depth += 1; fallthrough into the body
\* of the ad case: skip = true; adDepth = depth; inAd = true
ChapterStartTag ==
  /\ s_pc = "loop" /\ s_loop
  /\ HasNext(s_pos)
  /\ LET token == NextToken(s_pos)
         depth == s_depth + 1
     IN /\ token.Type = StartTagToken
        /\ s_pos' = s_pos + 1
        /\ s_depth' = depth
        /\ s_adDepth' = depth
        /\ ChapterTail(s_pos + 1, token, TRUE, TRUE)
  /\ UNCHANGED <<s_pc, s_loop, s_errs>>
  /\ UNCHANGED <<inputVars, findVars, allVars, matchVars, epubVars, checkVars, imageVars>>

\* case ttype == html.EndTagToken && (div || span) && depth == adDepth:
\* inAd = false; adDepth = -1; fallthrough; case ttype == html.EndTagToken:
\* depth -= 1
ChapterEndTag ==
  /\ s_pc = "loop" /\ s_loop
  /\ HasNext(s_pos)
  /\ LET token == NextToken(s_pos)
         adEnd == token.Data \in {"div", "span"} /\ s_depth = s_adDepth
     IN /\ token.Type = EndTagToken
        /\ s_pos' = s_pos + 1
        /\ s_depth' = s_depth - 1
        /\ s_adDepth' = (IF adEnd THEN NoAdDepth ELSE s_adDepth)
        /\ ChapterTail(s_pos + 1, token, s_skip, IF adEnd THEN FALSE ELSE s_inAd)
  /\ UNCHANGED <<s_pc, s_loop, s_errs>>
  /\ UNCHANGED <<inputVars, findVars, allVars, matchVars, epubVars, checkVars, imageVars>>

\* case ttype == html.SelfClosingTagToken && token.Data == "hr" &&
\*      HtmlCheckAttrs(HtmlKeyInAttr("class", "wp-block-separator"), token.Attr)
ChapterSeparator ==
  /\ s_pc = "loop" /\ s_loop
  /\ HasNext(s_pos)
  /\ LET token == NextToken(s_pos)
     IN /\ token.Type = SelfClosingTagToken
        /\ token.Data = "hr"
        /\ HtmlCheckAttrs(KeyInAttr("class", <<"wp-block-separator">>), token.Attr)
        /\ s_pos' = s_pos + 1
        /\ s_loop' = FALSE
        /\ ChapterTail(s_pos + 1, token, TRUE, s_inAd)
  /\ UNCHANGED <<s_pc, s_depth, s_adDepth, s_errs>>
  /\ UNCHANGED <<inputVars, findVars, allVars, matchVars, epubVars, checkVars, imageVars>>

\* no case applies: text, other self-closing tags, and the error token of a
\* tokenizer error other than io.EOF
ChapterOtherToken ==
  /\ s_pc = "loop" /\ s_loop
  /\ LET token == NextToken(s_pos)
     IN /\ \/ /\ HasNext(s_pos)
              /\ token.Type \notin {StartTagToken, EndTagToken}
              /\ ~(token.Type = SelfClosingTagToken /\ token.Data = "hr"
                   /\ HtmlCheckAttrs(KeyInAttr("class", <<"wp-block-separator">>),
                                     token.Attr))
           \/ /\ ~HasNext(s_pos)
              /\ endKind # "EOF"
        /\ s_pos' = (IF HasNext(s_pos) THEN s_pos + 1 ELSE s_pos)
        /\ s_errs' = (IF HasNext(s_pos) THEN s_errs ELSE 1 - s_errs)
        /\ ChapterTail(IF HasNext(s_pos) THEN s_pos + 1 ELSE s_pos, token, s_skip, s_inAd)
  /\ UNCHANGED <<s_pc, s_loop, s_depth, s_adDepth>>
  /\ UNCHANGED <<inputVars, findVars, allVars, matchVars, epubVars, checkVars, imageVars>>

\* the loop is left: ret.WriteString("</div>"); return ret.Bytes()
ChapterReturn ==
  /\ s_pc = "loop" /\ ~s_loop
  /\ s_ret' = s_ret \o <<"</div>">>
  /\ s_pc' = "done"
  /\ UNCHANGED <<s_pos, s_depth, s_adDepth, s_skip, s_inAd, s_loop, s_written, s_errs>>
  /\ UNCHANGED <<inputVars, findVars, allVars, matchVars, epubVars, checkVars, imageVars>>

ChapterNext ==
  \/ ChapterErrorEOF
  \/ ChapterStartTag
  \/ ChapterEndTag
  \/ ChapterSeparator
  \/ ChapterOtherToken
  \/ ChapterReturn

\* ------------------------------------------------------------------------
\* Specifications
\* ------------------------------------------------------------------------
Next ==
  \/ FindNext
  \/ AllNext
  \/ MatchNext
  \/ EpubNext
  \/ CheckNext
  \/ ImageNext
  \/ ChapterNext

Spec == Init /\ [][Next]_vars

\* HtmlFind alone on its token stream
SpecFind == Init /\ [][FindNext]_vars

\* HtmlFindAll alone on its token stream
SpecFindAll == Init /\ [][AllNext]_vars

\* the attribute matchers on every bounded (key, value, k, v)
SpecMatch == MatchInit /\ [][MatchNext]_vars

\* HtmlFind and HtmlFindAll interleaved, each on its own tokenizer
PairNext ==
  \/ FindNext
  \/ AllNext

SpecPair == PairInit /\ [][PairNext]_vars

\* one volume through an adapter and EpubCreateFile
SpecEpub == EpubInit /\ [][EpubNext]_vars

\* HtmlFindAll alone, searching div, on the streams of FrameStreams
SpecFrames == FramesInit /\ [][AllNext]_vars

\* the filter loop of SoapfGetChapter alone on its token stream
SpecChapter == ChapterInit /\ [][ChapterNext]_vars

\* the image cache under any sequence of calls
SpecImage == ImageInit /\ [][ImageNext]_vars

\* HtmlCheckAttrs on every bounded attribute list
SpecCheck == CheckInit /\ [][CheckNext]_vars

\* the loop of HtmlFind keeps iterating while loop is true
FairSpecFind == SpecFind /\ WF_vars(FindNext)

\* the loop of HtmlFindAll keeps iterating while loop is true
FairSpecFindAll == SpecFindAll /\ WF_vars(AllNext)

\* ------------------------------------------------------------------------
\* Vocabulary of the properties: the token stream as a document
\* ------------------------------------------------------------------------
\* target is one of the space-free stretches of v that single spaces delimit
PieceOf(target, v) ==
  \E i \in 0..Len(v), j \in 0..Len(v) :
     /\ i <= j
     /\ (i = 0 \/ v[i] = Space)
     /\ (j = Len(v) \/ v[j + 1] = Space)
     /\ \A k \in (i + 1)..j : v[k] # Space
     /\ SubSeq(v, i + 1, j) = target

\* the value rule of the space-separated value matcher
ValueRule(target, v) ==
  IF \E i \in 1..Len(v) : v[i] = Space THEN PieceOf(target, v) ELSE v = target

\* the attribute list satisfies the predicate, or there is no predicate
Holds(attr) ==
  \/ attrCond.isNil
  \/ \E i \in 1..Len(attr) :
        attr[i].Key = attrCond.key /\ ValueRule(attrCond.value, attr[i].Val)

IsOpen(i) == tokens[i].Type = StartTagToken

IsClose(i) == tokens[i].Type = EndTagToken

IsSelf(i) == tokens[i].Type = SelfClosingTagToken

Named(i) == tokens[i].Data = tag

MatchOpen(i) == IsOpen(i) /\ Named(i) /\ Holds(tokens[i].Attr)

MatchSelf(i) == IsSelf(i) /\ Named(i) /\ Holds(tokens[i].Attr)

Positions == 1..Len(tokens)

\* number of open tags minus number of close tags among the first i tokens
DepthAt(i) ==
  Cardinality({k \in 1..i : IsOpen(k)}) - Cardinality({k \in 1..i : IsClose(k)})

\* tags nest properly up to the end of the stream; closed says whether every
\* open tag must also have been closed
RECURSIVE Nested(_, _, _)
Nested(i, stack, closed) ==
  IF i > Len(tokens) THEN (closed => stack = <<>>)
  ELSE IF IsOpen(i) THEN Nested(i + 1, Append(stack, tokens[i].Data), closed)
  ELSE IF IsClose(i)
       THEN /\ stack # <<>>
            /\ stack[Len(stack)] = tokens[i].Data
            /\ Nested(i + 1, SubSeq(stack, 1, Len(stack) - 1), closed)
  ELSE Nested(i + 1, stack, closed)

WellFormed == Nested(1, <<>>, TRUE)

\* a well-formed stream cut off at some token boundary
WellFormedPrefix == Nested(1, <<>>, FALSE)

\* the closing tag of the element opened at i; 0 if the stream has none
CloseOf(i) ==
  LET S == {j \in (i + 1)..Len(tokens) :
              IsClose(j) /\ tokens[j].Data = tokens[i].Data /\ DepthAt(j) = DepthAt(i) - 1}
  IN IF S = {} THEN 0 ELSE CHOOSE j \in S : \A k \in S : j <= k

\* the markup of tokens i..j
RECURSIVE Markup(_, _)
Markup(i, j) == IF i > j THEN <<>> ELSE String(tokens[i]) \o Markup(i + 1, j)

\* i opens the first element that matches (tag, attrCond)
FirstMatch(i) ==
  /\ MatchOpen(i)
  /\ \A k \in 1..(i - 1) : ~MatchOpen(k) /\ ~MatchSelf(k)

\* number of closing tags named tag in the string s
ClosingTagsIn(s) ==
  Cardinality({k \in 1..(Len(s) - 1) : s[k] = "</" /\ s[k + 1] = tag})

\* a loop iteration of HtmlFind pulls token i
FindPulls(i) ==
  /\ f_pc = "loop" /\ f_loop
  /\ f_pos = i - 1
  /\ f_pos' = i

\* a loop iteration of HtmlFindAll pulls token i
AllPulls(i) ==
  /\ a_pc = "loop" /\ a_loop
  /\ a_pos = i - 1
  /\ a_pos' = i

\* ------------------------------------------------------------------------
\* Properties
\* ------------------------------------------------------------------------
\* the stream holds exactly one element named tag, opened at i
OnlyElement(i) ==
  /\ IsOpen(i) /\ Named(i)
  /\ \A k \in Positions \ {i} : ~((IsOpen(k) \/ IsSelf(k)) /\ Named(k))

\* C1: on a well-formed stream with exactly one element named tag, HtmlFind
\* without a predicate returns the markup of that element, from its opening
\* tag through its closing tag.
C1_RoundTrip ==
  \A i \in Positions :
    (f_pc = "done" /\ attrCond.isNil /\ WellFormed /\ OnlyElement(i))
      => f_ret = Markup(i, CloseOf(i))

\* C2: when the first matching element contains an element of the same name,
\* HtmlFind stops at the closing tag of the outer element, and the result
\* holds both closing tags.
C2_Nesting ==
  \A i \in Positions, j \in Positions :
    (/\ f_pc = "done" /\ WellFormed /\ FirstMatch(i)
     /\ i < j /\ j < CloseOf(i) /\ IsOpen(j) /\ Named(j))
      => f_pos = CloseOf(i) /\ ClosingTagsIn(f_ret) >= 2

\* no matching element lies inside another matching element
SiblingMatches ==
  \A i \in Positions, j \in Positions :
    (MatchOpen(i) /\ i < j /\ j < CloseOf(i)) => ~MatchOpen(j) /\ ~MatchSelf(j)

\* the markup of every matching element from token i on, in document order
RECURSIVE Fragments(_)
Fragments(i) ==
  IF i > Len(tokens) THEN <<>>
  ELSE IF MatchOpen(i) THEN <<Markup(i, CloseOf(i))>> \o Fragments(i + 1)
  ELSE IF MatchSelf(i) THEN <<String(tokens[i])>> \o Fragments(i + 1)
  ELSE Fragments(i + 1)

\* C3: on a well-formed stream whose matching elements are siblings,
\* HtmlFindAll returns the markup of each matching element, in document
\* order, whatever other elements the stream holds.
C3_Siblings ==
  (WellFormed /\ SiblingMatches)
    => /\ a_pc # "panic"
       /\ (a_pc = "done" => a_ret = Fragments(1))

\* C4: the step of HtmlFindAll that processes a matching self-closing token
\* appends exactly one fragment, the markup of that token.
C4_SelfClosingFragment ==
  [][\A i \in Positions :
       (AllPulls(i) /\ MatchSelf(i)) => a_ret' = Append(a_ret, String(tokens[i]))]_vars

C4_Witness ==
  /\ a_pos > 0 /\ MatchSelf(a_pos)
  /\ Len(a_h) > 0
  /\ Len(a_ret) > 0 /\ a_ret[Len(a_ret)] = String(tokens[a_pos])

\* C5: with no capture active, HtmlFind stops at a matching self-closing
\* token and returns the markup of that token.
C5_SelfClosingFind ==
  [][\A i \in Positions :
       (FindPulls(i) /\ f_tagDepth = NoTagDepth /\ f_ret = <<>> /\ MatchSelf(i))
         => (f_loop' = FALSE /\ f_ret' = String(tokens[i]))]_vars

\* C6: the closure of HtmlKeyInAttr is true exactly when the keys are equal
\* and the value rule holds; HtmlValueContains follows the value rule.
C6_ValueMatching ==
  m_pc = "done" =>
    /\ m_ret = (m_k = m_key /\ ValueRule(m_value, m_v))
    /\ m_ret2 = ValueRule(m_value, m_v)

C6_Witness ==
  /\ m_pc = "done" /\ m_ret /\ m_ret2
  /\ m_value = <<"a">> /\ m_v = <<"b", Space, "a">>

\* C7: without a predicate, the first opening tag named tag starts the
\* capture of HtmlFind, whatever its attributes.
C7_NilPredicate ==
  [][\A i \in Positions :
       (/\ FindPulls(i) /\ attrCond.isNil /\ IsOpen(i) /\ Named(i)
        /\ \A k \in 1..(i - 1) : ~(IsOpen(k) /\ Named(k)))
         => f_tagDepth' # NoTagDepth]_vars

\* C8: when the stream ends cleanly before the closing tag of the first
\* matching element, HtmlFind returns the markup from the opening tag of that
\* element to the end of the stream.
C8_Truncation ==
  \A i \in Positions :
    (/\ f_pc = "done" /\ endKind = "EOF" /\ WellFormedPrefix
     /\ FirstMatch(i) /\ CloseOf(i) = 0)
      => f_ret = Markup(i, Len(tokens))

\* C9: HtmlFindAll returns no fragment for a frame still open at the end of
\* the stream: the fragments and the open frames together account for the
\* matching tokens, and every fragment is a single matching self-closing
\* token or runs from a matching opening tag to a closing tag named tag.
C9_TruncationAll ==
  a_pc = "done" =>
    /\ Len(a_ret) + Len(a_h) = Cardinality({i \in Positions : MatchOpen(i) \/ MatchSelf(i)})
    /\ \A r \in 1..Len(a_ret) :
         \/ \E i \in Positions : MatchSelf(i) /\ a_ret[r] = String(tokens[i])
         \/ \E i \in Positions, j \in Positions :
               /\ i < j /\ MatchOpen(i) /\ IsClose(j) /\ Named(j)
               /\ a_ret[r] = Markup(i, j)

C9_Witness ==
  /\ a_pc = "done"
  /\ Len(a_h) > 0
  /\ Len(a_ret) > 0

\* C10: HtmlFind eventually returns, whether the tokenizer ends with io.EOF
\* or with another error.
C10_Terminates == <>(f_pc = "done")

\* no token named tag opens or is a match for (tag, attrCond)
NoMatch == \A i \in Positions : ~MatchOpen(i) /\ ~MatchSelf(i)

\* C11: HtmlFindAll runs to its return without a runtime failure on every
\* token stream; a closing tag named tag met while no frame is open causes no
\* out-of-range access.
C11_NeverFails == a_pc # "panic"

\* C12: on a stream without any match HtmlFind returns the empty string and
\* HtmlFindAll returns the empty sequence.
C12_NoMatch ==
  NoMatch =>
    /\ f_pc = "done" => f_ret = <<>>
    /\ a_pc # "panic"
    /\ a_pc = "done" => a_ret = <<>>

\* the string s ends with the string t
EndsWith(s, t) ==
  Len(t) <= Len(s) /\ SubSeq(s, Len(s) - Len(t) + 1, Len(s)) = t

\* in ret the fragment of a matching element nested in another matching
\* element comes before the fragment of the enclosing one
InnerFirst(ret) ==
  \A i \in Positions, j \in Positions :
    (MatchOpen(i) /\ MatchOpen(j) /\ i < j /\ j < CloseOf(i))
      => \E r \in 1..Len(ret), q \in 1..Len(ret) :
            /\ r < q
            /\ ret[r] = Markup(j, CloseOf(j))
            /\ ret[q] = Markup(i, CloseOf(i))

\* C13: the result of HtmlFindAll is in closing order: a fragment is added
\* only behind the earlier ones, by the step that processes its closing (or
\* self-closing) token; so of two nested matches both are reported, the inner
\* one first.
C13_ClosingOrder ==
  [][/\ a_ret' # a_ret =>
          \E i \in Positions :
             /\ AllPulls(i)
             /\ IsClose(i) \/ MatchSelf(i)
             /\ Len(a_ret') = Len(a_ret) + 1
             /\ SubSeq(a_ret', 1, Len(a_ret)) = a_ret
             /\ EndsWith(a_ret'[Len(a_ret')], String(tokens[i]))
     /\ (a_pc' = "done" /\ WellFormed) => InnerFirst(a_ret')]_vars

C13_Witness ==
  /\ a_pc = "done" /\ WellFormed
  /\ Len(a_ret) = 2
  /\ \E i \in Positions, j \in Positions :
        MatchOpen(i) /\ MatchOpen(j) /\ i < j /\ j < CloseOf(i)

\* C14: the buffer of every open frame is the markup of all tokens from its
\* opening tag to the last token processed, and on a well-nested stream every
\* fragment is the markup of a matching element from its opening tag through
\* its own closing tag (or one matching self-closing token).
C14_LosslessAll ==
  a_pc # "panic" =>
    /\ \A k \in 1..Len(a_h) :
         \E i \in 1..a_pos :
            /\ MatchOpen(i)
            /\ a_tagDepth[k] = DepthAt(i)
            /\ a_h[k] = Markup(i, a_pos)
            /\ \A l \in (k + 1)..Len(a_h) : Len(a_h[l]) < Len(a_h[k])
    /\ WellFormedPrefix =>
         \A r \in 1..Len(a_ret) :
            \/ \E i \in 1..a_pos : MatchSelf(i) /\ a_ret[r] = String(tokens[i])
            \/ \E i \in 1..a_pos :
                  /\ MatchOpen(i)
                  /\ CloseOf(i) # 0 /\ CloseOf(i) <= a_pos
                  /\ a_ret[r] = Markup(i, CloseOf(i))

C14_Witness ==
  /\ a_pc = "loop"
  /\ Len(a_h) = 2 /\ a_h[1] # a_h[2]
  /\ Len(a_ret) >= 1
  /\ a_pos = Len(tokens)

\* C15: once a capture is active in HtmlFind, the markup of every token
\* pulled, the triggering opening tag included, is appended to the output.
C15_LosslessFind ==
  [][\A i \in Positions :
       (FindPulls(i) /\ f_tagDepth' # NoTagDepth)
         => f_ret' = f_ret \o String(tokens[i])]_vars

\* HtmlFind run alone from (pos, depth, tagDepth, ret): whether it returns,
\* and what
RECURSIVE AloneFind(_, _, _, _)
AloneFind(pos, depth, tagDepth, ret) ==
  IF ~HasNext(pos)
  THEN [returns |-> endKind = "EOF", ret |-> ret]
  ELSE LET token == tokens[pos + 1]
       IN CASE token.Type = StartTagToken ->
                 IF token.Data = tag /\ Holds(token.Attr)
                 THEN AloneFind(pos + 1, depth + 1, depth + 1,
                                IF attrCond.isNil \/ depth + 1 = NoTagDepth
                                THEN ret ELSE ret \o String(token))
                 ELSE AloneFind(pos + 1, depth + 1, tagDepth,
                                IF tagDepth = NoTagDepth THEN ret ELSE ret \o String(token))
            [] token.Type = EndTagToken ->
                 LET out == IF tagDepth = NoTagDepth THEN ret ELSE ret \o String(token)
                 IN IF token.Data = tag /\ depth = tagDepth
                    THEN [returns |-> TRUE, ret |-> out]
                    ELSE AloneFind(pos + 1, depth - 1, tagDepth, out)
            [] token.Type = SelfClosingTagToken /\ token.Data = tag ->
                 AloneFind(pos + 1, depth, tagDepth, ret)
            [] OTHER ->
                 AloneFind(pos + 1, depth, tagDepth,
                           IF tagDepth = NoTagDepth THEN ret ELSE ret \o String(token))

\* the frames (open depth, buffer) after str is added to every buffer
Added(frames, str) ==
  [k \in 1..Len(frames) |-> [depth |-> frames[k].depth, buf |-> frames[k].buf \o str]]

\* HtmlFindAll run alone from (pos, depth, frames, ret): how it ends, and
\* what it returns
RECURSIVE AloneAll(_, _, _, _)
AloneAll(pos, depth, frames, ret) ==
  IF ~HasNext(pos)
  THEN [ends |-> IF endKind = "EOF" THEN "done" ELSE "never", ret |-> ret]
  ELSE LET token == tokens[pos + 1]
           str == String(token)
       IN CASE token.Type = StartTagToken ->
                 AloneAll(pos + 1, depth + 1,
                          Added(IF token.Data = tag /\ Holds(token.Attr)
                                THEN Append(frames, [depth |-> depth + 1, buf |-> <<>>])
                                ELSE frames, str),
                          ret)
            [] token.Type = EndTagToken ->
                 IF token.Data = tag /\ frames = <<>>
                 THEN [ends |-> "panic", ret |-> ret]
                 ELSE IF token.Data = tag /\ frames[Len(frames)].depth = depth
                 THEN AloneAll(pos + 1, depth - 1,
                               Added(SubSeq(frames, 1, Len(frames) - 1), str),
                               Append(ret, frames[Len(frames)].buf \o str))
                 ELSE AloneAll(pos + 1, depth - 1, Added(frames, str), ret)
            [] token.Type = SelfClosingTagToken /\ token.Data = tag /\ Holds(token.Attr) ->
                 AloneAll(pos + 1, depth, Added(frames, str), Append(ret, str))
            [] OTHER ->
                 AloneAll(pos + 1, depth, Added(frames, str), ret)

\* C16: interleaved with the other extractor, each of HtmlFind and
\* HtmlFindAll ends as it does when run alone on its token stream, with the
\* same result.
C16_Independent ==
  /\ f_pc = "done" =>
       /\ AloneFind(0, 0, NoTagDepth, <<>>).returns
       /\ f_ret = AloneFind(0, 0, NoTagDepth, <<>>).ret
  /\ a_pc = "done" =>
       /\ AloneAll(0, 0, <<>>, <<>>).ends = "done"
       /\ a_ret = AloneAll(0, 0, <<>>, <<>>).ret
  /\ a_pc = "panic" => AloneAll(0, 0, <<>>, <<>>).ends = "panic"

C16_Witness ==
  /\ f_pc = "done" /\ f_ret # <<>>
  /\ a_pc = "done" /\ a_ret # <<>>
  /\ f_pos < a_pos

\* C17: the file list an adapter hands to EpubCreateFile, and so the
\* archive, starts with the mimetype entry.
C17_MimetypeFirst ==
  /\ e_pc # "adapter" => e_files[1] = File("mimetype")
  /\ e_zip # <<>> => e_zip[1] = File("mimetype")

\* C18: once a matching opening tag has set the capture depth of HtmlFind,
\* no later token changes it.
C18_CaptureFixed ==
  [][f_tagDepth # NoTagDepth => f_tagDepth' = f_tagDepth]_vars

\* C19: while no capture is active in HtmlFind, no closing tag ends the loop,
\* also after unbalanced closing tags have made depth negative.
C19_NoStopWithoutCapture ==
  [][\A i \in Positions :
       (FindPulls(i) /\ f_tagDepth = NoTagDepth /\ IsClose(i)) => f_loop']_vars

\* the tags opened among the first pos tokens and not closed among them
OpenTags(pos) ==
  {i \in 1..pos : IsOpen(i) /\ (CloseOf(i) = 0 \/ CloseOf(i) > pos)}

\* C20: in both extractors depth is the number of opening tags minus the
\* number of closing tags pulled so far; a match records the depth already
\* incremented, the closure test sees the depth not yet decremented; on a
\* well-nested stream depth is the number of open tags, hence never negative.
C20_DepthBookkeeping ==
  /\ f_depth = DepthAt(f_pos)
  /\ a_pc # "panic" => a_depth = DepthAt(a_pos)
  /\ f_tagDepth # NoTagDepth =>
       \E i \in 1..f_pos : IsOpen(i) /\ Named(i) /\ f_tagDepth = DepthAt(i)
  /\ \A k \in 1..Len(a_tagDepth) :
       \E i \in 1..a_pos : IsOpen(i) /\ Named(i) /\ a_tagDepth[k] = DepthAt(i)
  /\ (~f_loop /\ f_errs = 0) =>
       IsClose(f_pos) /\ Named(f_pos) /\ f_tagDepth = f_depth + 1
  /\ WellFormedPrefix =>
       /\ f_depth >= 0 /\ f_depth = Cardinality(OpenTags(f_pos))
       /\ a_depth >= 0
       /\ a_pc # "panic" => a_depth = Cardinality(OpenTags(a_pos))

C20_Witness ==
  /\ WellFormedPrefix
  /\ ~f_loop /\ f_errs = 0 /\ f_depth = 1
  /\ a_pc = "loop" /\ a_depth = 2 /\ Len(a_tagDepth) = 1

\* the first pair of c_attr that satisfies c_f; Len(c_attr) + 1 if none does
FirstSatisfying ==
  LET S == {i \in 1..Len(c_attr) : Call(c_f, c_attr[i].Key, c_attr[i].Val)}
  IN IF S = {} THEN Len(c_attr) + 1 ELSE CHOOSE i \in S : \A k \in S : i <= k

\* C21: HtmlCheckAttrs returns true for a nil predicate without calling it;
\* otherwise it returns true exactly when some pair satisfies the predicate,
\* having called the predicate on the pairs in list order up to and including
\* the first satisfying one and on no later pair; it returns false on an empty
\* list.  The attribute loop of HtmlFind gives the same answer.
C21_CheckAttrs ==
  c_pc = "done" =>
    /\ c_f.isNil => (c_ret /\ c_calls = <<>>)
    /\ ~c_f.isNil =>
         /\ c_ret = (FirstSatisfying <= Len(c_attr))
         /\ c_calls = [k \in 1..(IF c_ret THEN FirstSatisfying ELSE Len(c_attr)) |-> k]
         /\ (c_attr = <<>> => ~c_ret)
         /\ c_ret = RangeAttr(c_f, c_attr, 1)
    /\ c_ret = HtmlCheckAttrs(c_f, c_attr)

C21_Witness ==
  /\ c_pc = "done" /\ ~c_f.isNil /\ c_ret
  /\ Len(c_attr) = 3 /\ c_calls = <<1, 2>>
  /\ Call(c_f, c_attr[3].Key, c_attr[3].Val)

\* C22: frames leave the stack from the top only.  At a closing tag named
\* tag the top frame is removed exactly when its open depth equals the current
\* depth; every older frame stays, with its open depth, whatever that depth is.
C22_TopOnly ==
  [][\A i \in Positions :
       (AllPulls(i) /\ IsClose(i) /\ Named(i) /\ a_pc' # "panic")
         => LET top == Len(a_tagDepth)
            IN /\ Len(a_tagDepth') >= top - 1
               /\ \A k \in 1..(top - 1) :
                    /\ a_tagDepth'[k] = a_tagDepth[k]
                    /\ a_h'[k] = a_h[k] \o String(tokens[i])
               /\ (Len(a_tagDepth') = top - 1)
                    <=> (top > 0 /\ a_tagDepth[top] = a_depth)]_vars

C22_Witness ==
  /\ a_pc = "loop" /\ a_pos > 0 /\ IsClose(a_pos) /\ Named(a_pos)
  /\ Len(a_tagDepth) = 2
  /\ a_tagDepth[1] = a_depth + 1
  /\ a_tagDepth[2] # a_depth + 1

\* C23: a loop iteration of HtmlFindAll removes at most one frame and appends
\* at most one fragment; the frame stack shrinks only at a closing tag named
\* tag whose depth equals the open depth recorded for the removed frame.
C23_RemovalDiscipline ==
  [][/\ Len(a_h') >= Len(a_h) - 1
     /\ Len(a_ret') <= Len(a_ret) + 1
     /\ Len(a_h') < Len(a_h)
          => \E i \in Positions :
               /\ AllPulls(i) /\ IsClose(i) /\ Named(i)
               /\ a_tagDepth[Len(a_tagDepth)] = a_depth]_vars

C23_Witness ==
  /\ a_pos = 3 /\ MatchOpen(1) /\ MatchOpen(2) /\ IsClose(3) /\ Named(3)
  /\ Len(a_h) = 1 /\ Len(a_ret) = 1

\* C27: after every token, the matching opening and self-closing tokens seen
\* so far are as many as the fragments returned plus the frames still open;
\* the fragments never outnumber the matching tokens of the stream.
C27_Conservation ==
  /\ Len(a_ret) + Len(a_h)
       = Cardinality({i \in 1..a_pos : MatchOpen(i) \/ MatchSelf(i)})
  /\ Len(a_ret) <= Cardinality({i \in Positions : MatchOpen(i) \/ MatchSelf(i)})

C27_Witness ==
  /\ a_pos = 4 /\ Len(a_ret) = 2 /\ Len(a_h) = 1
  /\ \E i \in 1..a_pos : MatchSelf(i)

\* C29: the step that processes a matching self-closing token leaves depth
\* and the stack of open frames as they were, and adds the markup of the
\* token, and nothing else, to the buffer of every open frame.
C29_SelfClosingFrame ==
  [][\A i \in Positions :
       (AllPulls(i) /\ MatchSelf(i))
         => /\ a_depth' = a_depth
            /\ a_tagDepth' = a_tagDepth
            /\ a_n' = a_n
            /\ Len(a_h') = Len(a_h)
            /\ \A k \in 1..Len(a_h) : a_h'[k] = a_h[k] \o String(tokens[i])]_vars

C29_Witness ==
  /\ a_pos = 3 /\ MatchOpen(1) /\ MatchOpen(2) /\ MatchSelf(3)
  /\ a_tagDepth = <<1, 2>> /\ a_depth = 2
  /\ \A k \in 1..2 : EndsWith(a_h[k], String(tokens[3]))

\* C30: between tokens n is the index of the top frame, len(tagDepth) - 1 =
\* len(h) - 1, and at least -1; on a well-formed stream the open depths of
\* the frames increase strictly from oldest to newest and the newest is at
\* most the current depth.
C30_StackShape ==
  /\ a_n = Len(a_tagDepth) - 1
  /\ a_n = Len(a_h) - 1
  /\ a_n >= -1
  /\ WellFormed =>
       /\ \A k \in 1..(Len(a_tagDepth) - 1) : a_tagDepth[k] < a_tagDepth[k + 1]
       /\ (a_tagDepth # <<>> => a_tagDepth[Len(a_tagDepth)] <= a_depth)

C30_Witness ==
  /\ WellFormed /\ a_n = 1
  /\ Len(a_tagDepth) = 2 /\ a_tagDepth[1] < a_tagDepth[2]
  /\ a_tagDepth[2] = a_depth

FirstElement(i) ==
  /\ MatchOpen(i) \/ MatchSelf(i)
  /\ \A k \in 1..(i - 1) : ~MatchOpen(k) /\ ~MatchSelf(k)

\* the markup of the element that starts at i
ElementAt(i) == IF IsOpen(i) THEN Markup(i, CloseOf(i)) ELSE String(tokens[i])

\* C24: on a well-formed stream with at least one matching element, the
\* string HtmlFind returns is the markup of the first-opened matching element,
\* and it is one of the fragments HtmlFindAll returns for the same stream,
\* with or without a predicate.
C24_Generalizes ==
  \A i \in Positions :
    (f_pc = "done" /\ a_pc = "done" /\ WellFormed /\ FirstElement(i))
      => /\ f_ret = ElementAt(i)
         /\ \E r \in 1..Len(a_ret) : a_ret[r] = f_ret

\* C25: a call of FetchImageCached for a url the cache holds fetches nothing,
\* leaves the cache as it is and returns the stored file with the imgCounter
\* it was given; a call for a url the cache does not hold fetches that url
\* once, stores the file under it with Id Img<imgCounter>_Ch<n>, returns that
\* file and imgCounter + 1.  No call changes the entry of another url.
C25_ImageCache ==
  [][(i_pc = "call" /\ i_pc' = "idle")
       => LET url == i_args.url
          IN /\ \A u \in URLs \ {url} : ImageCache'[u] = ImageCache[u]
             /\ IF ImageCache[url] # NoFile
                THEN /\ i_fetched' = i_fetched
                     /\ ImageCache'[url] = ImageCache[url]
                     /\ i_ret'.ifile = ImageCache[url]
                     /\ i_ret'.imgCounter = i_args.imgCounter
                ELSE /\ i_fetched' = i_fetched \o <<url>>
                     /\ ImageCache'[url].Id
                          = <<"Img", ToString(i_args.imgCounter), "_Ch", ToString(i_args.n)>>
                     /\ i_ret'.ifile = ImageCache'[url]
                     /\ i_ret'.imgCounter = i_args.imgCounter + 1]_vars

C25_Witness ==
  /\ i_pc = "idle"
  /\ i_ret.ifile = ImageCache[i_args.url]
  /\ i_ret.imgCounter = i_args.imgCounter
  /\ i_ret.ifile.Id = <<"Img", "0", "_Ch", "1">>
  /\ i_args.n = 2 /\ i_args.imgCounter = 1
  /\ i_fetched = <<i_args.url>>

\* token i opens an ad container: a div whose class holds code-block or a
\* span whose class holds has-inline-color
AdStart(i) ==
  /\ IsOpen(i)
  /\ \E a \in 1..Len(tokens[i].Attr) :
       /\ tokens[i].Attr[a].Key = "class"
       /\ \/ tokens[i].Data = "div"
             /\ ValueRule(<<"code-block">>, tokens[i].Attr[a].Val)
          \/ tokens[i].Data = "span"
             /\ ValueRule(<<"has-inline-color">>, tokens[i].Attr[a].Val)

\* token i is the separator that ends the chapter
Separator(i) ==
  /\ IsSelf(i) /\ tokens[i].Data = "hr"
  /\ \E a \in 1..Len(tokens[i].Attr) :
       /\ tokens[i].Attr[a].Key = "class"
       /\ ValueRule(<<"wp-block-separator">>, tokens[i].Attr[a].Val)

\* a loop iteration of SoapfGetChapter pulls token i
ChapterPulls(i) ==
  /\ s_pc = "loop" /\ s_loop
  /\ s_pos = i - 1
  /\ s_pos' = i

\* C26: outside an ad container, a token that neither opens an ad container
\* nor is the separator is written to the output, and it starts no skip
\* region; this holds for the start tag of a non-ad element too.
C26_AdSkipping ==
  [][\A i \in Positions :
       (ChapterPulls(i) /\ ~s_skip /\ ~s_inAd /\ ~AdStart(i) /\ ~Separator(i))
         => /\ s_ret' = s_ret \o String(tokens[i])
            /\ ~s_skip' /\ ~s_inAd']_vars
====
